---- MODULE Spec2Model ----
(***************************************************************************)
(* A model of the logrus Logstash hook: the Options validator and the      *)
(* constructor New, Hook.Fire, and the deprecated LegacyHook with its      *)
(* always-sent fields and its hook-only prefix filter.                     *)
(*                                                                         *)
(* A program builds one hook (a Hook through New, or a LegacyHook through  *)
(* one of its constructors) and then fires entries on it.  Fire is         *)
(* modelled statement by statement: the merge loop, the call of the        *)
(* formatter, the call of Write, and the return (with the deferred filter  *)
(* of the LegacyHook run as part of whichever step returns).               *)
(*                                                                         *)
(* Entries are those logrus hands to a hook: entry.Data is a map of the    *)
(* entry's own (logrus makes it in NewEntry / WithFields), never nil.      *)
(* Level, Message and Time of an entry are read by the formatter only and  *)
(* are not modelled.  Field names are sequences of characters, so that     *)
(* strings.HasPrefix is computed and not assumed.                          *)
(***************************************************************************)
EXTENDS Integers, Sequences, FiniteSets, TLC

VARIABLES
    hook,       \* the *Hook returned by the last New, or NilHook
    newCall,    \* the last call of New: its Options and the errors it met
    legacy,     \* the *LegacyHook built by a legacy constructor, or NilLegacy
    lastOp,     \* the last constructor or With* call on the LegacyHook
    pc,         \* position of the running Fire call
    entry,      \* entry.Data of the entry being fired
    entry0,     \* entry.Data as it was when Fire was called
    hook0,      \* the hook (Hook or LegacyHook) as it was when Fire was called
    fmtCall,    \* the formatter call of this Fire: its argument and its result
    dataBytes,  \* Fire's local dataBytes
    writes,     \* the conn.Write calls of this Fire: argument and result
    ret         \* what Fire returned

vars == <<hook, newCall, legacy, lastOp, pc, entry, entry0, hook0, fmtCall,
          dataBytes, writes, ret>>

(***************************************************************************)
(* Bounds and input sets                                                   *)
(***************************************************************************)
\* field values are 1..MaxVal
MaxVal == 2

Vals == 1..MaxVal

\* field names: "_h" and "_s"
Keys == {<<"_", "h">>, <<"_", "s">>}

\* hook-only prefixes: "" (no filter), "_" (both names), "_h" (one whole
\* name), "_hx" (longer than a name)
Prefixes == {<<>>, <<"_">>, <<"_", "h">>, <<"_", "h", "x">>}

\* logrus.Fields values: every map from a set of keys to values
Maps == UNION {[S -> Vals] : S \in SUBSET Keys}

EmptyFields == [k \in {} |-> 0]

\* a logrus.Fields variable is nil or a map
NilFields == [nil |-> TRUE, m |-> EmptyFields]

FieldsArgs == {NilFields} \cup {[nil |-> FALSE, m |-> f] : f \in Maps}

\* the nil error, and the errors of the collaborators
NoErr == "nil"

DialErr == "dial error"

FormatErr == "format error"

WriteErr == "write error"

\* an io.Writer / net.Conn: nil, or a connection (the caller's or net.Dial's)
NilConn == "nil"

Conns == {NilConn, "conn"}

\* a logrus.Formatter: nil, the caller's, or the default one bound to a type
NilFormatter == [kind |-> "nil", type |-> ""]

CustomFormatter == [kind |-> "custom", type |-> ""]

AppNames == {"", "app"}

Protocols == {"", "tcp"}

Addresses == {"", "localhost:8989"}

OptionsSet ==
    [Conn : Conns, Protocol : Protocols, Address : Addresses,
     AppName : AppNames, Fields : FieldsArgs,
     Formatter : {NilFormatter, CustomFormatter}]

NilHook == [nil |-> TRUE]

NilLegacy == [nil |-> TRUE]

NoCall == [called |-> FALSE]

NoOp == "none"

NoBytes == [set |-> FALSE, type |-> "", version |-> "", fields |-> EmptyFields]

NoFormat ==
    [called |-> FALSE, data |-> EmptyFields, prefix |-> <<>>,
     bytes |-> NoBytes, err |-> NoErr]

(***************************************************************************)
(* strings                                                                 *)
(***************************************************************************)
HasPrefix(s, prefix) ==
    /\ Len(prefix) <= Len(s)
    /\ SubSeq(s, 1, Len(prefix)) = prefix

TrimPrefix(s, prefix) ==
    IF HasPrefix(s, prefix) THEN SubSeq(s, Len(prefix) + 1, Len(s)) ELSE s

(***************************************************************************)
(* Options validation and New                                              *)
(***************************************************************************)
\* validOptions with the AppName/Formatter check made first
validOptions_formatterFirst(opts) ==
    IF opts.AppName # "" /\ opts.Formatter # NilFormatter
    THEN "Specify AppName or Formatter"
    ELSE IF opts.Conn = NilConn /\ (opts.Address = "" \/ opts.Protocol = "")
    THEN "Missing connection details"
    ELSE IF opts.Conn # NilConn /\ (opts.Address # "" \/ opts.Protocol # "")
    THEN "Specify Conn or Address and Protocol"
    ELSE NoErr

\* validOptions without the AppName/Formatter check
validOptions_noFormatterCheck(opts) ==
    IF opts.Conn = NilConn /\ (opts.Address = "" \/ opts.Protocol = "")
    THEN "Missing connection details"
    ELSE IF opts.Conn # NilConn /\ (opts.Address # "" \/ opts.Protocol # "")
    THEN "Specify Conn or Address and Protocol"
    ELSE NoErr

validOptions(opts) ==
    IF opts.Conn = NilConn /\ (opts.Address = "" \/ opts.Protocol = "")
    THEN "Missing connection details"
    ELSE IF opts.Conn # NilConn /\ (opts.Address # "" \/ opts.Protocol # "")
    THEN "Specify Conn or Address and Protocol"
    ELSE IF opts.AppName # "" /\ opts.Formatter # NilFormatter
    THEN "Specify AppName or Formatter"
    ELSE NoErr

\* net.Dial(protocol, address): a connection, or an error
Dial(protocol, address) ==
    {[conn |-> "conn", err |-> NoErr], [conn |-> NilConn, err |-> DialErr]}

defaultFormatter(appName, version) ==
    [kind |-> "default", type |-> appName]

\* the Hook New builds once validation and dialling went well
BuildHook(opts, conn) ==
    [nil |-> FALSE,
     conn |-> conn,
     ctx |-> IF opts.Fields.nil THEN EmptyFields ELSE opts.Fields.m,
     formatter |-> IF opts.AppName # "" THEN defaultFormatter(opts.AppName, "1")
                   ELSE opts.Formatter]

\* the program builds one hook: no constructor has been called yet
NoHookYet ==
    /\ hook = NilHook /\ legacy = NilLegacy
    /\ newCall = NoCall /\ lastOp = NoOp

New(opts) ==
    /\ NoHookYet
    /\ LET verr == validOptions(opts) IN
       IF verr # NoErr
       THEN /\ hook' = NilHook
            /\ newCall' = [called |-> TRUE, opts |-> opts, validErr |-> verr,
                           err |-> verr]
       ELSE IF opts.Conn = NilConn
       THEN \E d \in Dial(opts.Protocol, opts.Address) :
              /\ hook' = IF d.err # NoErr THEN NilHook ELSE BuildHook(opts, d.conn)
              /\ newCall' = [called |-> TRUE, opts |-> opts, validErr |-> verr,
                             err |-> d.err]
       ELSE /\ hook' = BuildHook(opts, opts.Conn)
            /\ newCall' = [called |-> TRUE, opts |-> opts, validErr |-> verr,
                           err |-> NoErr]
    /\ UNCHANGED <<legacy, lastOp, pc, entry, entry0, hook0, fmtCall,
                   dataBytes, writes, ret>>

(***************************************************************************)
(* The collaborators of Fire: the formatter and the writer                 *)
(***************************************************************************)
\* the merge loop without the `!ok` test: a static field overwrites
Merge_overwrite(data, ctx) ==
    [k \in DOMAIN data \cup DOMAIN ctx |->
        IF k \in DOMAIN ctx THEN ctx[k] ELSE data[k]]

\* the merge loop of Fire: a static field is added where the key is absent
Merge(data, ctx) ==
    [k \in DOMAIN data \cup DOMAIN ctx |->
        IF k \in DOMAIN data THEN data[k] ELSE ctx[k]]

\* the record the default formatter serialises: the fields, type, @version
Serialize(fields, type) ==
    [set |-> TRUE, type |-> type, version |-> "1", fields |-> fields]

\* formatter.Format(entry): the results (dataBytes, err) it can give.  A
\* caller's formatter returns what it likes, nil bytes included.
Format(formatter, data) ==
    IF formatter.kind = "default"
    THEN {[bytes |-> Serialize(data, formatter.type), err |-> NoErr],
          [bytes |-> NoBytes, err |-> FormatErr]}
    ELSE {[bytes |-> Serialize(data, "custom"), err |-> NoErr],
          [bytes |-> NoBytes, err |-> NoErr],
          [bytes |-> NoBytes, err |-> FormatErr]}

\* conn.Write(p): the errors it can return
Write(conn, p) == {NoErr, WriteErr}

(***************************************************************************)
(* Hook.Fire                                                               *)
(***************************************************************************)
\* Fire is called on an entry whose Data is `data`; the merge loop runs
HookFireMerge(data) ==
    /\ hook # NilHook
    /\ pc \in {"idle", "returned"}
    /\ entry0' = data
    /\ hook0' = hook
    /\ entry' = Merge(data, hook.ctx)
    /\ fmtCall' = NoFormat
    /\ dataBytes' = NoBytes
    /\ writes' = <<>>
    /\ ret' = "none"
    /\ pc' = "merged"
    /\ UNCHANGED <<hook, newCall, legacy, lastOp>>

\* h.formatter.Format(entry): a nil formatter is a nil dereference
HookFireFormat ==
    /\ hook # NilHook
    /\ pc = "merged"
    /\ IF hook.formatter = NilFormatter
       THEN /\ pc' = "panicked"
            /\ ret' = "panic"
            /\ UNCHANGED <<fmtCall, dataBytes>>
       ELSE \E r \in Format(hook.formatter, entry) :
              /\ fmtCall' = [called |-> TRUE, data |-> entry, prefix |-> <<>>,
                            bytes |-> r.bytes, err |-> r.err]
              /\ dataBytes' = r.bytes
              /\ IF r.err # NoErr
                 THEN ret' = r.err /\ pc' = "returned"
                 ELSE ret' = ret /\ pc' = "formatted"
    /\ UNCHANGED <<hook, newCall, legacy, lastOp, entry, entry0, hook0, writes>>

\* Fire with the result of Write dropped: it returns nil after any write
HookFireWrite_dropsErr ==
    /\ hook # NilHook
    /\ pc = "formatted"
    /\ \E e \in Write(hook.conn, dataBytes) :
         /\ writes' = Append(writes, [p |-> dataBytes, err |-> e])
         /\ ret' = NoErr
         /\ pc' = "returned"
    /\ UNCHANGED <<hook, newCall, legacy, lastOp, entry, entry0, hook0, fmtCall,
                   dataBytes>>

\* h.conn.Write(dataBytes), and the return
HookFireWrite ==
    /\ hook # NilHook
    /\ pc = "formatted"
    /\ \E e \in Write(hook.conn, dataBytes) :
         /\ writes' = Append(writes, [p |-> dataBytes, err |-> e])
         /\ ret' = e
         /\ pc' = "returned"
    /\ UNCHANGED <<hook, newCall, legacy, lastOp, entry, entry0, hook0, fmtCall,
                   dataBytes>>

(***************************************************************************)
(* LegacyHook: constructors                                                *)
(***************************************************************************)
NewHookWithFieldsAndConnAndPrefix(conn, appName, alwaysSentFields, prefix) ==
    /\ NoHookYet
    /\ legacy' = [nil |-> FALSE, conn |-> conn, appName |-> appName,
                  alwaysSentFields |-> alwaysSentFields,
                  hookOnlyPrefix |-> prefix]
    /\ lastOp' = "new"
    /\ UNCHANGED <<hook, newCall, pc, entry, entry0, hook0, fmtCall, dataBytes,
                   writes, ret>>

NewHookWithFieldsAndConn(conn, appName, alwaysSentFields) ==
    NewHookWithFieldsAndConnAndPrefix(conn, appName, alwaysSentFields, <<>>)

NewHookWithFieldsAndPrefix(protocol, address, appName, alwaysSentFields, prefix) ==
    \E d \in Dial(protocol, address) :
        IF d.err # NoErr
        THEN /\ NoHookYet
             /\ lastOp' = d.err
             /\ UNCHANGED <<hook, newCall, legacy, pc, entry, entry0, hook0,
                            fmtCall, dataBytes, writes, ret>>
        ELSE NewHookWithFieldsAndConnAndPrefix(d.conn, appName,
                                               alwaysSentFields, prefix)

NewHookWithFields(protocol, address, appName, alwaysSentFields) ==
    NewHookWithFieldsAndPrefix(protocol, address, appName, alwaysSentFields, <<>>)

NewHookWithConn(conn, appName) ==
    NewHookWithFieldsAndConn(conn, appName, [nil |-> FALSE, m |-> EmptyFields])

NewHook(protocol, address, appName) ==
    NewHookWithFields(protocol, address, appName,
                      [nil |-> FALSE, m |-> EmptyFields])

NewFilterHookWithPrefix(prefix) ==
    /\ NoHookYet
    /\ legacy' = [nil |-> FALSE, conn |-> NilConn, appName |-> "",
                  alwaysSentFields |-> [nil |-> FALSE, m |-> EmptyFields],
                  hookOnlyPrefix |-> prefix]
    /\ lastOp' = "new"
    /\ UNCHANGED <<hook, newCall, pc, entry, entry0, hook0, fmtCall, dataBytes,
                   writes, ret>>

NewFilterHook == NewFilterHookWithPrefix(<<>>)

(***************************************************************************)
(* LegacyHook: WithPrefix, WithField, WithFields                           *)
(***************************************************************************)
\* m[key] = value on a Go map
Put(m, key, value) ==
    [k \in DOMAIN m \cup {key} |-> IF k = key THEN value ELSE m[k]]

\* for key, value := range fields { m[key] = value }
PutAll(m, fields) ==
    [k \in DOMAIN m \cup DOMAIN fields |->
        IF k \in DOMAIN fields THEN fields[k] ELSE m[k]]

\* the caller is between two Fire calls; the entry of the last one is gone
Between ==
    /\ legacy # NilLegacy
    /\ pc \in {"idle", "returned"}
    /\ entry' = EmptyFields /\ entry0' = EmptyFields /\ hook0' = NilLegacy
    /\ fmtCall' = NoFormat /\ dataBytes' = NoBytes /\ writes' = <<>>
    /\ ret' = "none"
    /\ UNCHANGED <<hook, newCall>>

WithPrefix(prefix) ==
    /\ Between
    /\ legacy' = [legacy EXCEPT !.hookOnlyPrefix = prefix]
    /\ lastOp' = "WithPrefix"
    /\ pc' = "idle"

\* WithField that keeps the value of a key already set
WithField_keepOld(key, value) ==
    /\ Between
    /\ lastOp' = "WithField"
    /\ IF legacy.alwaysSentFields.nil
       THEN pc' = "panicked" /\ legacy' = legacy
       ELSE /\ pc' = "idle"
            /\ legacy' = [legacy EXCEPT !.alwaysSentFields.m =
                             IF key \in DOMAIN @ THEN @ ELSE Put(@, key, value)]

\* an assignment to an entry of a nil map panics
WithField(key, value) ==
    /\ Between
    /\ lastOp' = "WithField"
    /\ IF legacy.alwaysSentFields.nil
       THEN pc' = "panicked" /\ legacy' = legacy
       ELSE /\ pc' = "idle"
            /\ legacy' = [legacy EXCEPT !.alwaysSentFields.m = Put(@, key, value)]

WithFields(fields) ==
    /\ Between
    /\ lastOp' = "WithFields"
    /\ IF legacy.alwaysSentFields.nil /\ DOMAIN fields # {}
       THEN pc' = "panicked" /\ legacy' = legacy
       ELSE /\ pc' = "idle"
            /\ legacy' = [legacy EXCEPT !.alwaysSentFields.m = PutAll(@, fields)]

(***************************************************************************)
(* LegacyHook.Fire                                                         *)
(***************************************************************************)
\* the deferred h.filterHookOnly(entry): what entry.Data is after it
filterHookOnly(h, data) ==
    IF h.hookOnlyPrefix # <<>>
    THEN [k \in {x \in DOMAIN data : ~HasPrefix(x, h.hookOnlyPrefix)} |-> data[k]]
    ELSE data

\* LogstashFormatter{Type: appName}.FormatWithPrefix(entry, prefix): the
\* fields under their names with the prefix dropped (two names that meet
\* after the drop leave one value, whichever the map iteration sets last),
\* then the reserved keys; or an error of the JSON encoder.
FormatWithPrefix(type, data, prefix) ==
    LET names == {TrimPrefix(k, prefix) : k \in DOMAIN data}
        sent == {f \in [names -> Vals] :
                    \A n \in names : \E k \in DOMAIN data :
                        TrimPrefix(k, prefix) = n /\ f[n] = data[k]}
    IN  {[bytes |-> Serialize(f, type), err |-> NoErr] : f \in sent}
        \cup {[bytes |-> NoBytes, err |-> FormatErr]}

\* Fire with the filter called at its top instead of deferred: the filter
\* runs before the merge and before the formatter reads the entry
LegacyFireMerge_filterFirst(data) ==
    /\ legacy # NilLegacy
    /\ pc \in {"idle", "returned"}
    /\ entry0' = data
    /\ hook0' = legacy
    /\ entry' = Merge(filterHookOnly(legacy, data), legacy.alwaysSentFields.m)
    /\ fmtCall' = NoFormat
    /\ dataBytes' = NoBytes
    /\ writes' = <<>>
    /\ ret' = "none"
    /\ pc' = "merged"
    /\ UNCHANGED <<hook, newCall, legacy, lastOp>>

\* Fire is called: the defer is registered and the merge loop runs
LegacyFireMerge(data) ==
    /\ legacy # NilLegacy
    /\ pc \in {"idle", "returned"}
    /\ entry0' = data
    /\ hook0' = legacy
    /\ entry' = Merge(data, legacy.alwaysSentFields.m)
    /\ fmtCall' = NoFormat
    /\ dataBytes' = NoBytes
    /\ writes' = <<>>
    /\ ret' = "none"
    /\ pc' = "merged"
    /\ UNCHANGED <<hook, newCall, legacy, lastOp>>

\* if h.conn == nil { return nil }, then the deferred filter
LegacyFireFilterOnly ==
    /\ legacy # NilLegacy
    /\ pc = "merged"
    /\ legacy.conn = NilConn
    /\ ret' = NoErr
    /\ entry' = filterHookOnly(legacy, entry)
    /\ pc' = "returned"
    /\ UNCHANGED <<hook, newCall, legacy, lastOp, entry0, hook0, fmtCall,
                   dataBytes, writes>>

\* Fire with the filter called before the last return only, not deferred:
\* the return on a formatter error leaves the entry unfiltered
LegacyFireFormat_noDefer ==
    /\ legacy # NilLegacy
    /\ pc = "merged"
    /\ legacy.conn # NilConn
    /\ \E r \in FormatWithPrefix(legacy.appName, entry, legacy.hookOnlyPrefix) :
         /\ fmtCall' = [called |-> TRUE, data |-> entry,
                       prefix |-> legacy.hookOnlyPrefix,
                       bytes |-> r.bytes, err |-> r.err]
         /\ dataBytes' = r.bytes
         /\ IF r.err # NoErr
            THEN /\ ret' = r.err
                 /\ entry' = entry
                 /\ pc' = "returned"
            ELSE /\ ret' = ret
                 /\ entry' = entry
                 /\ pc' = "formatted"
    /\ UNCHANGED <<hook, newCall, legacy, lastOp, entry0, hook0, writes>>

\* Fire without the `h.conn == nil` test before the formatter
LegacyFireFormat_noNilCheck ==
    /\ legacy # NilLegacy
    /\ pc = "merged"
    /\ \E r \in FormatWithPrefix(legacy.appName, entry, legacy.hookOnlyPrefix) :
         /\ fmtCall' = [called |-> TRUE, data |-> entry,
                       prefix |-> legacy.hookOnlyPrefix,
                       bytes |-> r.bytes, err |-> r.err]
         /\ dataBytes' = r.bytes
         /\ IF r.err # NoErr
            THEN /\ ret' = r.err
                 /\ entry' = filterHookOnly(legacy, entry)
                 /\ pc' = "returned"
            ELSE /\ ret' = ret
                 /\ entry' = entry
                 /\ pc' = "formatted"
    /\ UNCHANGED <<hook, newCall, legacy, lastOp, entry0, hook0, writes>>

\* formatter.FormatWithPrefix(entry, h.hookOnlyPrefix); on an error the
\* return and the deferred filter
LegacyFireFormat ==
    /\ legacy # NilLegacy
    /\ pc = "merged"
    /\ legacy.conn # NilConn
    /\ \E r \in FormatWithPrefix(legacy.appName, entry, legacy.hookOnlyPrefix) :
         /\ fmtCall' = [called |-> TRUE, data |-> entry,
                       prefix |-> legacy.hookOnlyPrefix,
                       bytes |-> r.bytes, err |-> r.err]
         /\ dataBytes' = r.bytes
         /\ IF r.err # NoErr
            THEN /\ ret' = r.err
                 /\ entry' = filterHookOnly(legacy, entry)
                 /\ pc' = "returned"
            ELSE /\ ret' = ret
                 /\ entry' = entry
                 /\ pc' = "formatted"
    /\ UNCHANGED <<hook, newCall, legacy, lastOp, entry0, hook0, writes>>

\* Fire whose filter deletes the prefixed keys from h.alwaysSentFields too
LegacyFireWrite_filtersHook ==
    /\ legacy # NilLegacy
    /\ pc = "formatted"
    /\ \E e \in Write(legacy.conn, dataBytes) :
         /\ writes' = Append(writes, [p |-> dataBytes, err |-> e])
         /\ ret' = e
    /\ entry' = filterHookOnly(legacy, entry)
    /\ legacy' = [legacy EXCEPT !.alwaysSentFields.m = filterHookOnly(legacy, @)]
    /\ pc' = "returned"
    /\ UNCHANGED <<hook, newCall, lastOp, entry0, hook0, fmtCall, dataBytes>>

\* h.conn.Write(dataBytes), the return, and the deferred filter
LegacyFireWrite ==
    /\ legacy # NilLegacy
    /\ pc = "formatted"
    /\ \E e \in Write(legacy.conn, dataBytes) :
         /\ writes' = Append(writes, [p |-> dataBytes, err |-> e])
         /\ ret' = e
    /\ entry' = filterHookOnly(legacy, entry)
    /\ pc' = "returned"
    /\ UNCHANGED <<hook, newCall, legacy, lastOp, entry0, hook0, fmtCall,
                   dataBytes>>

(***************************************************************************)
(* The program                                                             *)
(***************************************************************************)
Init ==
    /\ hook = NilHook
    /\ newCall = NoCall
    /\ legacy = NilLegacy
    /\ lastOp = NoOp
    /\ pc = "idle"
    /\ entry = EmptyFields
    /\ entry0 = EmptyFields
    /\ hook0 = NilHook
    /\ fmtCall = NoFormat
    /\ dataBytes = NoBytes
    /\ writes = <<>>
    /\ ret = "none"

Construct ==
    \/ \E opts \in OptionsSet : New(opts)
    \/ \E c \in Conns, a \in AppNames, f \in FieldsArgs, p \in Prefixes :
         NewHookWithFieldsAndConnAndPrefix(c, a, f, p)
    \/ \E c \in Conns, a \in AppNames, f \in FieldsArgs :
         NewHookWithFieldsAndConn(c, a, f)
    \/ \E a \in AppNames, f \in FieldsArgs, p \in Prefixes :
         NewHookWithFieldsAndPrefix("tcp", "localhost:8989", a, f, p)
    \/ \E a \in AppNames, f \in FieldsArgs :
         NewHookWithFields("tcp", "localhost:8989", a, f)
    \/ \E c \in Conns, a \in AppNames : NewHookWithConn(c, a)
    \/ \E a \in AppNames : NewHook("tcp", "localhost:8989", a)
    \/ \E p \in Prefixes : NewFilterHookWithPrefix(p)
    \/ NewFilterHook

Mutate ==
    \/ \E p \in Prefixes : WithPrefix(p)
    \/ \E k \in Keys, v \in Vals : WithField(k, v)
    \/ \E f \in Maps : WithFields(f)

HookFire ==
    \/ \E d \in Maps : HookFireMerge(d)
    \/ HookFireFormat
    \/ HookFireWrite

LegacyFire ==
    \/ \E d \in Maps : LegacyFireMerge(d)
    \/ LegacyFireFilterOnly
    \/ LegacyFireFormat
    \/ LegacyFireWrite

Next == Construct \/ Mutate \/ HookFire \/ LegacyFire

Spec == Init /\ [][Next]_vars

(***************************************************************************)
(* What the claims speak of                                                *)
(***************************************************************************)
\* key starts with prefix: key is prefix followed by something
StartsWith(key, prefix) ==
    \E n \in 0..Len(key) : key = prefix \o SubSeq(key, n + 1, Len(key))

\* a Fire call on the Hook, or on the LegacyHook, has returned
HookFireReturned == hook # NilHook /\ pc = "returned"

LegacyFireReturned == legacy # NilLegacy /\ pc = "returned"

\* the value key has once the static fields S are merged into the event E
MergedValue(E, S, key) == IF key \in DOMAIN E THEN E[key] ELSE S[key]

\* New was given exactly one connection source
OneConnSource(o) ==
    \/ o.Conn # NilConn /\ o.Address = "" /\ o.Protocol = ""
    \/ o.Conn = NilConn /\ o.Address # "" /\ o.Protocol # ""

BothNameAndFormatter(o) == o.AppName # "" /\ o.Formatter # NilFormatter

(***************************************************************************)
(* C1: after Hook.Fire returns (nil, formatter error or write error),      *)
(* every static key that was not in the event's fields is in them with the *)
(* static value, and every key that was in them has its original value.    *)
(***************************************************************************)
C1_StaticFieldsNeverOverwrite ==
    HookFireReturned =>
        /\ \A k \in DOMAIN hook.ctx :
             k \notin DOMAIN entry0 =>
                k \in DOMAIN entry /\ entry[k] = hook.ctx[k]
        /\ \A k \in DOMAIN entry0 :
             k \in DOMAIN entry /\ entry[k] = entry0[k]

\* Fire returned a write error; one static key was added, one was in the
\* event with another value
C1_Witness ==
    /\ HookFireReturned
    /\ ret = WriteErr
    /\ \E k \in DOMAIN hook.ctx : k \notin DOMAIN entry0
    /\ \E k \in DOMAIN hook.ctx \cap DOMAIN entry0 : hook.ctx[k] # entry0[k]

(***************************************************************************)
(* C2: New returns an error with a nil Hook, or a working Hook: writer and *)
(* formatter both set, so that Fire on it returns nil or an error and does *)
(* not fail on a missing formatter or writer.                              *)
(***************************************************************************)
C2_NewYieldsWorkingHook ==
    newCall.called =>
        /\ \/ newCall.err # NoErr /\ hook = NilHook
           \/ /\ newCall.err = NoErr
              /\ hook # NilHook
              /\ hook.conn # NilConn
              /\ hook.formatter # NilFormatter
        /\ ret # "panic"

(***************************************************************************)
(* C3: validOptions returns the first of three errors that applies, in the *)
(* order missing connection, ambiguous connection, ambiguous formatter; it *)
(* returns nil exactly when one connection source is given and AppName and *)
(* Formatter are not both given; New returns validOptions' error with a    *)
(* nil Hook.                                                               *)
(***************************************************************************)
C3_ValidOptionsOrder ==
    newCall.called =>
        LET o == newCall.opts IN
        /\ newCall.validErr =
             IF o.Conn = NilConn /\ (o.Address = "" \/ o.Protocol = "")
             THEN "Missing connection details"
             ELSE IF o.Conn # NilConn /\ (o.Address # "" \/ o.Protocol # "")
             THEN "Specify Conn or Address and Protocol"
             ELSE IF BothNameAndFormatter(o)
             THEN "Specify AppName or Formatter"
             ELSE NoErr
        /\ newCall.validErr = NoErr <=>
             (OneConnSource(o) /\ ~BothNameAndFormatter(o))
        /\ newCall.validErr # NoErr =>
             (newCall.err = newCall.validErr /\ hook = NilHook)

\* Conn and Address given, and AppName and Formatter too: the second error
C3_Witness ==
    /\ newCall.called
    /\ newCall.opts.Conn # NilConn /\ newCall.opts.Address # ""
    /\ BothNameAndFormatter(newCall.opts)
    /\ newCall.err = "Specify Conn or Address and Protocol"
    /\ hook = NilHook

(***************************************************************************)
(* C4, as claimed: for all Options with AppName and Formatter both given,  *)
(* whatever the connection fields, New fails with "Specify AppName or      *)
(* Formatter".                                                             *)
(***************************************************************************)
C4_Original ==
    (newCall.called /\ BothNameAndFormatter(newCall.opts)) =>
        (hook = NilHook /\ newCall.err = "Specify AppName or Formatter")

(***************************************************************************)
(* C4, amended: for all Options with AppName and Formatter both given, New *)
(* fails with a nil Hook; the error is "Specify AppName or Formatter" when *)
(* exactly one connection source is given, and otherwise the connection    *)
(* error that validOptions checks first.                                   *)
(***************************************************************************)
C4_AmbiguousFormatterFails ==
    (newCall.called /\ BothNameAndFormatter(newCall.opts)) =>
        /\ hook = NilHook
        /\ newCall.err =
             IF OneConnSource(newCall.opts)
             THEN "Specify AppName or Formatter"
             ELSE IF newCall.opts.Conn = NilConn
             THEN "Missing connection details"
             ELSE "Specify Conn or Address and Protocol"

C4_Witness ==
    /\ newCall.called
    /\ BothNameAndFormatter(newCall.opts)
    /\ newCall.opts.Conn = NilConn
    /\ newCall.err = "Specify AppName or Formatter"

(***************************************************************************)
(* C5: for a LegacyHook with a non-empty prefix, on every return of Fire   *)
(* (filter-only, formatter error, write error, success) the entry's fields *)
(* hold no key that starts with the prefix, whether it came from the event *)
(* or from the always-sent fields, and every key that does not start with  *)
(* the prefix and was there after the merge is there with the same value.  *)
(***************************************************************************)
C5_DeferredFilterOnEveryReturn ==
    (LegacyFireReturned /\ legacy.hookOnlyPrefix # <<>>) =>
        LET S == legacy.alwaysSentFields.m
            prefix == legacy.hookOnlyPrefix
        IN  /\ \A k \in DOMAIN entry : ~StartsWith(k, prefix)
            /\ \A k \in DOMAIN entry0 \cup DOMAIN S :
                 ~StartsWith(k, prefix) =>
                    /\ k \in DOMAIN entry
                    /\ entry[k] = MergedValue(entry0, S, k)

\* Fire returned the formatter's error; the event brought one prefixed key,
\* the always-sent fields another, and both are gone
C5_Witness ==
    /\ LegacyFireReturned
    /\ ret = FormatErr
    /\ legacy.hookOnlyPrefix # <<>>
    /\ \E k \in DOMAIN entry0 : StartsWith(k, legacy.hookOnlyPrefix)
    /\ \E k \in DOMAIN legacy.alwaysSentFields.m \ DOMAIN entry0 :
         StartsWith(k, legacy.hookOnlyPrefix)
    /\ entry = EmptyFields

(***************************************************************************)
(* C6: Hook.Fire returns the first error met, unchanged.  When the         *)
(* formatter returns an error, Fire returns it and makes no Write call;    *)
(* when the formatter succeeds and Write returns an error, Fire returns    *)
(* that error; when both succeed Fire returns nil; in the last two cases   *)
(* there is exactly one Write call, of the bytes the formatter returned.   *)
(***************************************************************************)
C6_FirstErrorUnchanged ==
    HookFireReturned =>
        /\ fmtCall.called
        /\ IF fmtCall.err # NoErr
           THEN ret = fmtCall.err /\ writes = <<>>
           ELSE /\ Len(writes) = 1
                /\ writes[1].p = fmtCall.bytes
                /\ ret = writes[1].err

\* the formatter succeeded with some bytes and Write failed
C6_Witness ==
    /\ HookFireReturned
    /\ fmtCall.called /\ fmtCall.err = NoErr /\ fmtCall.bytes.set
    /\ Len(writes) = 1 /\ writes[1].err = WriteErr
    /\ ret = WriteErr

(***************************************************************************)
(* C7: a filter-only LegacyHook (conn nil) returns nil from every Fire     *)
(* call, for every entry, always-sent mapping and prefix, and never calls  *)
(* the formatter or Write; the entry is still merged and filtered.         *)
(***************************************************************************)
C7_FilterOnlyAlwaysSucceeds ==
    (legacy # NilLegacy /\ legacy.conn = NilConn) =>
        /\ pc # "formatted"
        /\ ~fmtCall.called
        /\ writes = <<>>
        /\ ret \in {"none", NoErr}
        /\ pc = "returned" =>
             LET S == legacy.alwaysSentFields.m
                 prefix == legacy.hookOnlyPrefix
                 kept == {k \in DOMAIN entry0 \cup DOMAIN S :
                             prefix = <<>> \/ ~StartsWith(k, prefix)}
             IN  /\ ret = NoErr
                 /\ entry = [k \in kept |-> MergedValue(entry0, S, k)]

\* a hook made by NewFilterHookWithPrefix, given a field by WithField, has
\* merged it into an entry and filtered a prefixed key of the event
C7_Witness ==
    /\ LegacyFireReturned
    /\ legacy.conn = NilConn /\ legacy.appName = ""
    /\ lastOp = "WithField"
    /\ ret = NoErr
    /\ \E k \in DOMAIN entry \ DOMAIN entry0 : TRUE
    /\ \E k \in DOMAIN entry0 \ DOMAIN entry : TRUE

(***************************************************************************)
(* C8: in LegacyHook.Fire with a connection and a non-empty prefix the     *)
(* steps run in the order merge, format, write, filter: the entry handed   *)
(* to the formatter holds every prefixed field, of the event and of the    *)
(* always-sent fields, so they are part of the payload (under their names  *)
(* with the prefix dropped); they leave the entry only once the write      *)
(* attempt is over, never before the formatter reads them.                 *)
(***************************************************************************)
C8_FilterAfterFormatAndWrite ==
    (legacy # NilLegacy /\ legacy.conn # NilConn
        /\ legacy.hookOnlyPrefix # <<>>) =>
        LET S == legacy.alwaysSentFields.m
            prefix == legacy.hookOnlyPrefix
            all == DOMAIN entry0 \cup DOMAIN S
            merged == [k \in all |-> MergedValue(entry0, S, k)]
        IN  /\ pc \in {"merged", "formatted"} => entry = merged
            /\ pc = "formatted" => (fmtCall.called /\ writes = <<>>)
            /\ fmtCall.called =>
                 /\ fmtCall.data = merged
                 /\ fmtCall.err = NoErr =>
                      \A k \in all : StartsWith(k, prefix) =>
                         \E n \in DOMAIN fmtCall.bytes.fields : k = prefix \o n
            /\ writes # <<>> =>
                 /\ pc = "returned"
                 /\ fmtCall.called /\ fmtCall.err = NoErr
                 /\ writes[1].p = fmtCall.bytes
            /\ pc = "returned" =>
                 /\ fmtCall.called
                 /\ \A k \in DOMAIN entry : ~StartsWith(k, prefix)

\* the write is over and the entry is filtered; the formatter had read a
\* prefixed field of the event and one of the always-sent fields
C8_Witness ==
    /\ LegacyFireReturned
    /\ legacy.conn # NilConn /\ legacy.hookOnlyPrefix # <<>>
    /\ Len(writes) = 1
    /\ \E k \in DOMAIN entry0 :
         StartsWith(k, legacy.hookOnlyPrefix) /\ k \in DOMAIN fmtCall.data
    /\ \E k \in DOMAIN legacy.alwaysSentFields.m \ DOMAIN entry0 :
         StartsWith(k, legacy.hookOnlyPrefix) /\ k \in DOMAIN fmtCall.data
    /\ entry = EmptyFields

(***************************************************************************)
(* C9: a WithField, WithFields or WithPrefix call that returns sets what   *)
(* it names and keeps the rest (so after any sequence of them each key     *)
(* holds the value of the most recent call that set it, a constructor's    *)
(* value being overwritten, and the prefix is that of the most recent      *)
(* WithPrefix), and the next Fire merges and filters with these values.    *)
(***************************************************************************)
C9_WithCallStep ==
    LET S == legacy.alwaysSentFields.m
        T == legacy'.alwaysSentFields.m
        returns == pc' # "panicked"
    IN  /\ \A key \in Keys, value \in Vals :
             (WithField(key, value) /\ returns) =>
                /\ key \in DOMAIN T /\ T[key] = value
                /\ \A k \in Keys \ {key} :
                     /\ k \in DOMAIN T <=> k \in DOMAIN S
                     /\ k \in DOMAIN S => T[k] = S[k]
                /\ legacy'.hookOnlyPrefix = legacy.hookOnlyPrefix
        /\ \A fields \in Maps :
             (WithFields(fields) /\ returns) =>
                /\ \A k \in DOMAIN fields : k \in DOMAIN T /\ T[k] = fields[k]
                /\ \A k \in Keys \ DOMAIN fields :
                     /\ k \in DOMAIN T <=> k \in DOMAIN S
                     /\ k \in DOMAIN S => T[k] = S[k]
                /\ legacy'.hookOnlyPrefix = legacy.hookOnlyPrefix
        /\ \A prefix \in Prefixes :
             WithPrefix(prefix) =>
                /\ legacy'.hookOnlyPrefix = prefix
                /\ legacy'.alwaysSentFields = legacy.alwaysSentFields

C9_FireUsesCurrentValues ==
    LegacyFireReturned =>
        LET S == legacy.alwaysSentFields.m
            prefix == legacy.hookOnlyPrefix
            kept == {k \in DOMAIN entry0 \cup DOMAIN S :
                        prefix = <<>> \/ ~StartsWith(k, prefix)}
        IN  entry = [k \in kept |-> MergedValue(entry0, S, k)]

C9_WithCallsTakeEffect == [][C9_WithCallStep]_vars /\ []C9_FireUsesCurrentValues

\* after a WithField call, Fire has merged a field the event did not have
C9_Witness ==
    /\ LegacyFireReturned
    /\ lastOp = "WithField"
    /\ \E k \in DOMAIN entry \ DOMAIN entry0 :
         entry[k] = legacy.alwaysSentFields.m[k]

(***************************************************************************)
(* C10: Fire leaves the hook unchanged.  During and after Hook.Fire and    *)
(* LegacyHook.Fire, on every exit path, the static mapping (ctx,           *)
(* alwaysSentFields) has the keys and values it had when Fire was called,  *)
(* and writer, formatter, application name and prefix are the same; the    *)
(* prefix filter deletes from the entry only.                              *)
(***************************************************************************)
C10_FireLeavesHookUnchanged ==
    (pc \in {"merged", "formatted", "returned"} \/ ret = "panic") =>
        /\ hook # NilHook => hook = hook0
        /\ legacy # NilLegacy => legacy = hook0

\* the filter took a prefixed always-sent field out of the entry, and the
\* field is still among the always-sent fields
C10_Witness ==
    /\ LegacyFireReturned
    /\ Len(writes) = 1
    /\ \E k \in DOMAIN legacy.alwaysSentFields.m \ DOMAIN entry0 :
         /\ StartsWith(k, legacy.hookOnlyPrefix)
         /\ legacy.hookOnlyPrefix # <<>>
         /\ k \notin DOMAIN entry

====
